---- MODULE Spec2Model ----
(***************************************************************************)
(* ZilligonClient (agent-sdk): the authenticated request executor, the     *)
(* token lifecycle and the credential acquisition flows, as a state        *)
(* machine.  One action runs a call chain from one suspension point (an    *)
(* await on the transport, on the response body, or on a timer) to the     *)
(* next: everything in between is synchronous code or promise              *)
(* continuations, which the event loop runs before any other I/O event.    *)
(*                                                                         *)
(* Spec runs the operations of one constructed client, LogSpec the same    *)
(* with debug logging on, CtorSpec the constructor call, and PollSpec      *)
(* (FairPollSpec with fairness) generateMediaAndWait, where each request() *)
(* of the poller is taken by its outcome: the data it returns or one of    *)
(* the errors request() throws under Spec.                                 *)
(***************************************************************************)
EXTENDS Integers, Sequences, FiniteSets, TLC

\* ------------------------------------------------------------------ bounds
MaxTicks == 3      \* the clock runs from ClockStep to ClockStep * MaxTicks
MaxIssue == 2      \* credential pairs the server issues in one behaviour

\* the callers that have operations in flight on the one client: one at a
\* time under Spec
Callers == {"A"}

\* ------------------------------------------------------- program constants
DEFAULT_BASE_URL == "https://api.zilligon.com"
DEFAULT_TIMEOUT == 30000
SAFETY_MARGIN == 60000
LOG_SLICE == 200
maxWaitMs == 300000
pollIntervalMs == 2000

\* granularity of the modelled clock (ms): one request timeout
ClockStep == DEFAULT_TIMEOUT

\* ------------------------------------------------------------- JS values
\* A JavaScript value: its type tag, and a string and/or a number.  The
\* string "tok" with number n is the n-th token text the server issued.
Undef == [k |-> "undefined", s |-> "", n |-> 0]
Null == [k |-> "null", s |-> "", n |-> 0]
NaN == [k |-> "nan", s |-> "", n |-> 0]
Str(s) == [k |-> "str", s |-> s, n |-> 0]
StrN(s, n) == [k |-> "str", s |-> s, n |-> n]
Num(v) == [k |-> "num", s |-> "", n |-> v]
Obj == [k |-> "obj", s |-> "", n |-> 0]
Bool(b) == [k |-> "bool", s |-> "", n |-> IF b THEN 1 ELSE 0]
Fn(s) == [k |-> "function", s |-> s, n |-> 0]

\* JS truthiness: undefined, null, NaN, "" and 0 are falsy
Truthy(v) ==
    CASE v.k = "str" -> ~(v.s = "" /\ v.n = 0)
      [] v.k = "num" -> v.n # 0
      [] v.k = "obj" -> TRUE
      [] v.k = "bool" -> v.n = 1
      [] v.k = "function" -> TRUE
      [] OTHER -> FALSE

\* a || b
JsOr(a, b) == IF Truthy(a) THEN a ELSE b

\* a + b * 1000 on numbers; NaN when an operand is not a number
JsAddMs(nowMs, secs) ==
    CASE secs.k = "num" -> Num(nowMs + secs.n * 1000)
      [] secs.k = "null" -> Num(nowMs)
      [] OTHER -> NaN

\* ---------------------------------------------------------------- errors
\* new ZilligonError(message, code, statusCode)
ZilligonError(message, code, statusCode) ==
    [cls |-> "ZilligonError", name |-> "ZilligonError", message |-> message,
     code |-> code, statusCode |-> statusCode]

\* any other Error instance (TypeError, SyntaxError, DOMException AbortError)
JsError(name, message) ==
    [cls |-> "Error", name |-> name, message |-> message,
     code |-> Undef, statusCode |-> Undef]

NoError == [cls |-> "none", name |-> "", message |-> Undef,
            code |-> Undef, statusCode |-> Undef]

\* an error with the endpoint of the request() that raised it attached
RaisedBy(ep, err) == [err |-> err, from |-> ep]

\* the values of ErrorCodes
ErrorCodes ==
    {"VALIDATION_ERROR", "INVALID_TOKEN", "INVALID_API_KEY", "TOKEN_EXPIRED",
     "TOKEN_REVOKED", "UNAUTHORIZED", "RATE_LIMITED", "AGENT_NOT_FOUND",
     "POST_NOT_FOUND", "COMMENT_NOT_FOUND", "COMMUNITY_NOT_FOUND",
     "HANDLE_EXISTS", "ALREADY_FOLLOWING", "NOT_FOLLOWING", "FORBIDDEN",
     "INSUFFICIENT_SCOPE", "AGENT_INACTIVE", "NETWORK_ERROR", "TIMEOUT",
     "CONFIG_ERROR"}

\* isAuthError()
isAuthError(error) ==
    error.code \in {Str("INVALID_TOKEN"), Str("INVALID_API_KEY"),
                    Str("TOKEN_EXPIRED"), Str("UNAUTHORIZED")}

\* isServerError()
isServerError(error) ==
    /\ error.statusCode # Undef
    /\ error.statusCode.k = "num"
    /\ error.statusCode.n >= 500

\* the ZilligonErrors of the taxonomy, with the HTTP status they may carry
ZilligonErrors ==
    {ZilligonError(Str("Y"), Str(c), st) :
         c \in ErrorCodes,
         st \in {Undef, Num(400), Num(401), Num(403), Num(404), Num(429),
                 Num(500), Num(503)}}

\* an error a caller has caught: whether its predicates were called, and
\* what isAuthError() and isServerError() returned
Caught(error, asked, auth, server) ==
    [error |-> error, asked |-> asked, isAuthError |-> auth,
     isServerError |-> server]

\* ----------------------------------------------------------- constructor
\* the config argument of the constructor
Config(apiKey, baseUrl, timeout, debug, fetch) ==
    [apiKey |-> apiKey, baseUrl |-> baseUrl, timeout |-> timeout,
     debug |-> debug, fetch |-> fetch]

\* no configuration: the client is not constructed
NoConfig == Config(Undef, Undef, Undef, Undef, Undef)

\* globalThis.fetch, on a platform that has one or not
GlobalFetch(platformFetch) == IF platformFetch THEN Fn("globalThis.fetch") ELSE Undef

\* new ZilligonClient(config): this.config is built first, with
\* globalThis.fetch.bind(globalThis) evaluated when no fetch is supplied, and
\* the API key is tested after it
ZilligonClient(config, platformFetch) ==
    IF ~Truthy(config.fetch) /\ ~Truthy(GlobalFetch(platformFetch))
    THEN [ok |-> FALSE, config |-> NoConfig,
          err |-> JsError("TypeError",
                          Str("Cannot read properties of undefined"))]
    ELSE LET built == Config(config.apiKey,
                             JsOr(config.baseUrl, Str(DEFAULT_BASE_URL)),
                             JsOr(config.timeout, Num(DEFAULT_TIMEOUT)),
                             JsOr(config.debug, Bool(FALSE)),
                             JsOr(config.fetch, GlobalFetch(platformFetch)))
         IN IF ~Truthy(built.apiKey)
            THEN [ok |-> FALSE, config |-> NoConfig,
                  err |-> ZilligonError(Str("API key is required"),
                                        Str("CONFIG_ERROR"), Undef)]
            ELSE [ok |-> TRUE, config |-> built, err |-> NoError]

\* the API key of the README's quick start
ApiKey == Str("zk_live_YOUR_API_KEY")

\* the config arguments a caller may pass
Configs ==
    {Config(k, b, t, d, f) :
        k \in {Undef, Null, Str(""), ApiKey},
        b \in {Undef, Str(""), Str("http://localhost:3000")},
        t \in {Undef, Num(0), Num(5000)},
        d \in {Undef, Bool(FALSE), Bool(TRUE)},
        f \in {Undef, Fn("fetch")}}

\* the config of the quick start, and the same with debug logging on
QuickStart == Config(ApiKey, Undef, Undef, Undef, Undef)
QuickStartDebug == Config(ApiKey, Undef, Undef, Bool(TRUE), Undef)

\* ------------------------------------------------------ response bodies
\* data payloads: the credential pair shape { accessToken, refreshToken,
\* expiresIn }, any other object, null, or no data at all
Payload(k, at, rt, ex) ==
    [k |-> k, accessToken |-> at, refreshToken |-> rt, expiresIn |-> ex]
NoData == Payload("undefined", Undef, Undef, Undef)
NullData == Payload("null", Undef, Undef, Undef)
ObjData == Payload("obj", Undef, Undef, Undef)

\* token lifetimes (seconds) the server hands out
Lifetimes == {60, 120}

\* the n-th pair the server issues
AccessOf(n) == StrN("at", n)
RefreshOf(n) == StrN("rt", n)

\* what a credential endpoint may put in data when it issued pair n
\* (n = 0: it issued none)
CredentialData(n) ==
    IF n = 0 THEN {NoData, NullData}
    ELSE {Payload("obj", AccessOf(n), RefreshOf(n), Num(l)) : l \in Lifetimes}
         \cup {Payload("obj", Undef, RefreshOf(n), Num(120)),
               Payload("obj", Str(""), RefreshOf(n), Num(120)),
               Payload("obj", AccessOf(n), Undef, Num(120)),
               Payload("obj", AccessOf(n), RefreshOf(n), Undef)}

DataOf(ep, n) ==
    IF ep = "target" THEN {NoData, NullData, ObjData} ELSE CredentialData(n)

\* the error member of an envelope, absent or { code, message }
NoErrorMember == [present |-> FALSE, code |-> Undef, message |-> Undef]
ErrorMember(code, message) ==
    [present |-> TRUE, code |-> code, message |-> message]
ErrorMembers ==
    {NoErrorMember}
    \cup {ErrorMember(c, m) : c \in {Str(""), Str("INVALID_TOKEN")},
                              m \in {Str(""), Str("Y")}}

\* a response body: not JSON, the JSON value null, or an envelope
\* { success, data?, error? }
InvalidBody ==
    [kind |-> "invalid", success |-> FALSE, data |-> NoData,
     error |-> NoErrorMember]
NullBody ==
    [kind |-> "null", success |-> FALSE, data |-> NoData,
     error |-> NoErrorMember]
Envelope(success, data, error) ==
    [kind |-> "envelope", success |-> success, data |-> data, error |-> error]

Bodies(ep, n) ==
    {InvalidBody, NullBody}
    \cup {Envelope(TRUE, d, NoErrorMember) : d \in DataOf(ep, n)}
    \cup {Envelope(FALSE, NoData, e) : e \in ErrorMembers}

Statuses == {200, 401, 500}

\* response.ok
ResponseOk(status) == status >= 200 /\ status <= 299

\* ------------------------------------------- request: the try / catch block
\* what a block of code comes to: a returned payload or a thrown error
Return(data) == [kind |-> "ok", data |-> data, err |-> NoError]
Throw(err) == [kind |-> "err", data |-> NoData, err |-> err]

\* data.error?.message and data.error?.code
OptMessage(error) == IF error.present THEN error.message ELSE Undef
OptCode(error) == IF error.present THEN error.code ELSE Undef

\* the ZilligonError thrown for a response that is not OK or not a success
ApiError(status, body) ==
    ZilligonError(
        JsOr(OptMessage(body.error), StrN("Request failed with status ", status)),
        JsOr(OptCode(body.error), Str("API_ERROR")),
        Num(status))

\* the try block from `await response.json()` on, for a response with this
\* status and body
TryBody(status, body) ==
    CASE body.kind = "invalid" ->
           Throw(JsError("SyntaxError", Str("Unexpected token in JSON")))
      [] body.kind = "null" ->
           Throw(JsError("TypeError", Str("Cannot read properties of null")))
      [] body.kind = "envelope" /\ (~ResponseOk(status) \/ ~body.success) ->
           Throw(ApiError(status, body))
      [] OTHER ->
           \* JSON.stringify(undefined) is undefined, and .slice throws on it
           IF body.data.k = "undefined"
           THEN Throw(JsError("TypeError",
                              Str("Cannot read properties of undefined")))
           ELSE Return(body.data)

\* the catch block without its AbortError branch
CatchBlockNoAbort(error) ==
    IF error.cls = "ZilligonError" THEN error
    ELSE ZilligonError(
             IF error.cls = "Error" THEN error.message ELSE Str("Unknown error"),
             Str("NETWORK_ERROR"), Undef)

\* the catch block without its `instanceof ZilligonError` branch
CatchBlockRewraps(error) ==
    IF error.cls = "Error" /\ error.name = "AbortError"
    THEN ZilligonError(Str("Request timed out"), Str("TIMEOUT"), Undef)
    ELSE ZilligonError(error.message, Str("NETWORK_ERROR"), Undef)

\* the catch block: what is thrown on for the error caught
CatchBlock(error) ==
    IF error.cls = "ZilligonError" THEN error
    ELSE IF error.cls = "Error" /\ error.name = "AbortError"
    THEN ZilligonError(Str("Request timed out"), Str("TIMEOUT"), Undef)
    ELSE ZilligonError(
             IF error.cls = "Error" THEN error.message ELSE Str("Unknown error"),
             Str("NETWORK_ERROR"), Undef)

\* request(), from the completion of the try block to its own completion
RequestOutcome(tried) ==
    IF tried.kind = "err" THEN Throw(CatchBlock(tried.err)) ELSE tried

\* what the transport itself may throw when the call was not aborted
TransportErrors == {JsError("TypeError", Str("fetch failed"))}
\* what it throws when the signal aborts the call
AbortError == JsError("AbortError", Str("This operation was aborted"))

\* clearTimeout(timeoutId) after the response arrived, and in the catch block
ClearOnResponse(ts, owner, call) ==
    {x \in ts : ~(x.owner = owner /\ x.call = call)}
\* a catch block that leaves the timer alone
ClearInCatchMissing(ts, owner, call) == ts
ClearInCatch(ts, owner, call) ==
    {x \in ts : ~(x.owner = owner /\ x.call = call)}

\* a request() that ignores options.skipAuth
NeedsAuthAlways(skipAuth) == TRUE
\* !options.skipAuth
NeedsAuth(skipAuth) == ~skipAuth

\* ------------------------------------------------------ credential state
Creds(at, rt, ex) ==
    [accessToken |-> at, refreshToken |-> rt, tokenExpiresAt |-> ex]

\* the validity test with its comparison turned around
TokenIsValidFlipped(cr, nowMs) ==
    /\ Truthy(cr.accessToken)
    /\ Truthy(cr.tokenExpiresAt)
    /\ cr.tokenExpiresAt.k = "num"
    /\ nowMs > cr.tokenExpiresAt.n - SAFETY_MARGIN

\* the validity test of ensureValidToken
TokenIsValid(cr, nowMs) ==
    /\ Truthy(cr.accessToken)
    /\ Truthy(cr.tokenExpiresAt)
    /\ cr.tokenExpiresAt.k = "num"
    /\ nowMs < cr.tokenExpiresAt.n - SAFETY_MARGIN

\* an isAuthenticated() that applies the 60 s margin of ensureValidToken
isAuthenticatedWithMargin(cr, nowMs) ==
    /\ Truthy(cr.accessToken)
    /\ Truthy(cr.tokenExpiresAt)
    /\ cr.tokenExpiresAt.k = "num"
    /\ nowMs < cr.tokenExpiresAt.n - SAFETY_MARGIN

\* isAuthenticated(): !!accessToken && !!tokenExpiresAt && Date.now() <
\* tokenExpiresAt
isAuthenticated(cr, nowMs) ==
    /\ Truthy(cr.accessToken)
    /\ Truthy(cr.tokenExpiresAt)
    /\ cr.tokenExpiresAt.k = "num"
    /\ nowMs < cr.tokenExpiresAt.n

\* assignments with a suspension after the first: the access token is
\* stored, the other two fields are still the old ones
StoreCredentialsAccessFirst(cr, response, nowMs) ==
    Creds(response.accessToken, cr.refreshToken, cr.tokenExpiresAt)

\* assignments that leave a newer stored pair alone
StoreCredentialsNewestWins(cr, response, nowMs) ==
    IF /\ cr.accessToken.k = "str"
       /\ response.accessToken.k = "str"
       /\ response.accessToken.n < cr.accessToken.n
    THEN cr
    ELSE Creds(response.accessToken, response.refreshToken,
               JsAddMs(nowMs, response.expiresIn))

\* assignments that keep the old refresh token when the response has none
StoreCredentialsMerging(cr, response, nowMs) ==
    Creds(response.accessToken, JsOr(response.refreshToken, cr.refreshToken),
          JsAddMs(nowMs, response.expiresIn))

\* the three assignments of authenticate / refreshAccessToken
StoreCredentials(cr, response, nowMs) ==
    Creds(response.accessToken, response.refreshToken,
          JsAddMs(nowMs, response.expiresIn))

\* authenticate(), from the completion of its request() on: the credential
\* state it leaves and the error it throws, if any
authenticate(cr, out, nowMs) ==
    IF out.kind = "err" THEN [ok |-> FALSE, creds |-> cr, err |-> out.err]
    ELSE IF out.data.k # "obj"
    THEN [ok |-> FALSE, creds |-> cr,
          err |-> JsError("TypeError", Str("Cannot read properties of null"))]
    ELSE [ok |-> TRUE, creds |-> StoreCredentials(cr, out.data, nowMs),
          err |-> NoError]

\* refreshAccessToken(), likewise
refreshAccessToken(cr, out, nowMs) ==
    IF out.kind = "err" THEN [ok |-> FALSE, creds |-> cr, err |-> out.err]
    ELSE IF out.data.k # "obj"
    THEN [ok |-> FALSE, creds |-> cr,
          err |-> JsError("TypeError", Str("Cannot read properties of null"))]
    ELSE [ok |-> TRUE, creds |-> StoreCredentials(cr, out.data, nowMs),
          err |-> NoError]

\* ------------------------------------------------------------ call frames
\* One frame per caller: the operation it runs (op), where the call chain is
\* suspended (pc: on the transport call, on response.json(), or finished), the
\* endpoint of the pending transport call (ep) and the Authorization header it
\* carries, the status of the response received, the pair the server issued
\* for it, and the operation's result.  calls, ensureCalls, snap and resp
\* record what the operation did, the state it started from, and how its
\* last request() ended: the response it received, if any, and whether its
\* timer aborted it.
NoHeader == [k |-> "none", s |-> "", n |-> 0]
NoResult == [kind |-> "none", value |-> Undef, err |-> NoError,
             from |-> "none"]
NoSnap == [accessToken |-> Null, refreshToken |-> Null,
           tokenExpiresAt |-> Null, now |-> 0]
NoExchange == [set |-> FALSE, data |-> NoData, at |-> 0]

NoBody ==
    [kind |-> "none", success |-> FALSE, data |-> NoData,
     error |-> NoErrorMember]
NoResponse == [status |-> 0, body |-> NoBody, aborted |-> FALSE]
Response(status, body) == [status |-> status, body |-> body, aborted |-> FALSE]
Aborted == [status |-> 0, body |-> NoBody, aborted |-> TRUE]

IdleFrame ==
    [op |-> "idle", pc |-> "idle", ep |-> "none", header |-> NoHeader,
     status |-> 0, pair |-> 0, calls |-> <<>>, ensureCalls |-> 0,
     snap |-> NoSnap, resp |-> NoResponse, result |-> NoResult]

Ops == {"request", "ensureValidToken", "authenticate", "refreshAccessToken",
        "isAuthenticated", "forceRefresh"}

\* the operations that await authenticate() or refreshAccessToken() with no
\* try block around it: the two themselves, and forceRefresh
Unguarded == {"authenticate", "refreshAccessToken", "forceRefresh"}

\* this.config.fetch(url, { method, headers, body, signal }) is called and
\* awaited
Fetch(f, ep, header) ==
    [f EXCEPT !.pc = "fetch", !.ep = ep, !.header = header,
              !.status = 0, !.pair = 0, !.resp = NoResponse]

\* request(..., { skipAuth: true }) up to its transport call: the call made by
\* authenticate and refreshAccessToken
SkipAuthRequest(f, ep, cr) ==
    IF NeedsAuth(TRUE)
    THEN [Fetch(f, ep, cr.accessToken) EXCEPT !.ensureCalls = @ + 1]
    ELSE Fetch(f, ep, NoHeader)

\* an operation completes: it returns value, or throws err
Returns(f, value) ==
    [f EXCEPT !.pc = "done", !.ep = "none",
              !.result = [kind |-> "ok", value |-> value, err |-> NoError,
                          from |-> "none"]]
Throws(f, raised) ==
    [f EXCEPT !.pc = "done", !.ep = "none",
              !.result = [kind |-> "err", value |-> Undef, err |-> raised.err,
                          from |-> raised.from]]

\* ensureValidToken has a token to return: to its caller when called on its
\* own, else to request(), which sets the header and calls the transport
TokenObtained(f, token) ==
    IF f.op = "ensureValidToken" THEN Returns(f, token)
    ELSE Fetch(f, "target", token)

\* an ensureValidToken() that returns whatever access token is stored,
\* as if an exchange for it were already on its way
ensureValidTokenTrustsStored(f, cr, nowMs) ==
    LET g == [f EXCEPT !.ensureCalls = @ + 1] IN
    IF Truthy(cr.accessToken) THEN TokenObtained(g, cr.accessToken)
    ELSE IF Truthy(cr.refreshToken) THEN SkipAuthRequest(g, "refresh", cr)
    ELSE SkipAuthRequest(g, "token", cr)

\* ensureValidToken() up to its first suspension
ensureValidToken(f, cr, nowMs) ==
    LET g == [f EXCEPT !.ensureCalls = @ + 1] IN
    IF TokenIsValid(cr, nowMs) THEN TokenObtained(g, cr.accessToken)
    ELSE IF Truthy(cr.refreshToken) THEN SkipAuthRequest(g, "refresh", cr)
    ELSE SkipAuthRequest(g, "token", cr)

\* a forceRefresh() that leaves a valid token alone
forceRefreshWhenStale(f, cr, nowMs) ==
    IF TokenIsValid(cr, nowMs) THEN Returns(f, Undef)
    ELSE IF Truthy(cr.refreshToken) THEN SkipAuthRequest(f, "refresh", cr)
    ELSE SkipAuthRequest(f, "token", cr)

\* forceRefresh() up to its first suspension
forceRefresh(f, cr, nowMs) ==
    IF Truthy(cr.refreshToken) THEN SkipAuthRequest(f, "refresh", cr)
    ELSE SkipAuthRequest(f, "token", cr)

\* request(method, path, body) of a resource operation up to its first
\* suspension
request(f, cr, nowMs) ==
    IF NeedsAuth(FALSE) THEN ensureValidToken(f, cr, nowMs)
    ELSE Fetch(f, "target", NoHeader)

\* an operation is called
Begin(f, cr, nowMs) ==
    CASE f.op = "request" -> request(f, cr, nowMs)
      [] f.op = "ensureValidToken" -> ensureValidToken(f, cr, nowMs)
      [] f.op = "authenticate" -> SkipAuthRequest(f, "token", cr)
      [] f.op = "refreshAccessToken" -> SkipAuthRequest(f, "refresh", cr)
      [] f.op = "isAuthenticated" -> Returns(f, Bool(isAuthenticated(cr, nowMs)))
      [] f.op = "forceRefresh" -> forceRefresh(f, cr, nowMs)

\* the value a resource operation returns: data.data
DataValue(data) ==
    CASE data.k = "obj" -> Obj
      [] data.k = "null" -> Null
      [] OTHER -> Undef

\* the exchange a successful authenticate / refreshAccessToken performed
Exchanged(r, out, nowMs, last) ==
    IF r.ok THEN [set |-> TRUE, data |-> out.data, at |-> nowMs] ELSE last

\* an ensureValidToken() that authenticates whatever the refresh gave
AfterRefreshAlwaysAuthenticates(f, r) == SkipAuthRequest(f, "token", r.creds)

\* an ensureValidToken() whose catch block rethrows the refresh failure
AfterRefreshPropagates(f, r) ==
    IF r.ok /\ Truthy(r.creds.accessToken)
    THEN TokenObtained(f, r.creds.accessToken)
    ELSE IF ~r.ok THEN Throws(f, RaisedBy("refresh", r.err))
    ELSE SkipAuthRequest(f, "token", r.creds)

\* ensureValidToken() after its `await this.refreshAccessToken()`
AfterRefresh(f, r) ==
    IF r.ok /\ Truthy(r.creds.accessToken)
    THEN TokenObtained(f, r.creds.accessToken)
    ELSE SkipAuthRequest(f, "token", r.creds)

\* an ensureValidToken() that calls authenticate again when it failed
AfterAuthenticateRetries(f, r) ==
    IF r.ok THEN TokenObtained(f, r.creds.accessToken)
    ELSE IF Len(f.calls) < 3 THEN SkipAuthRequest(f, "token", r.creds)
    ELSE Throws(f, RaisedBy("token", r.err))

\* ensureValidToken() after its `await this.authenticate()`
AfterAuthenticate(f, r) ==
    IF r.ok THEN TokenObtained(f, r.creds.accessToken)
    ELSE Throws(f, RaisedBy("token", r.err))

\* the record of a completed request(): its endpoint and header, whether it
\* returned, the code of the error it threw, whether its timer aborted it,
\* and whether its caller stored credentials from it, with the access token
\* stored
CallRecord(f, out, resp, stored) ==
    [ep |-> f.ep, header |-> f.header, ok |-> out.kind = "ok",
     code |-> out.err.code, aborted |-> resp.aborted, stored |-> stored,
     access |-> IF stored THEN out.data.accessToken ELSE Undef]

\* whether the caller of the request() of frame f stores credentials from
\* its outcome
Stores(f, cr, out, nowMs) ==
    CASE f.ep = "refresh" -> refreshAccessToken(cr, out, nowMs).ok
      [] f.ep = "token" -> authenticate(cr, out, nowMs).ok
      [] OTHER -> FALSE

\* The call chain of frame f from the completion (out) of its pending
\* request() to its next suspension: the frame, the credential state and the
\* last exchange it leaves.
Continue(f, cr, out, nowMs, last, resp) ==
    LET g == [f EXCEPT !.calls = Append(@, CallRecord(f, out, resp,
                                                     Stores(f, cr, out, nowMs))),
                       !.resp = resp]
    IN
    CASE f.ep = "target" ->
           [frame |-> IF out.kind = "ok" THEN Returns(g, DataValue(out.data))
                      ELSE Throws(g, RaisedBy("target", out.err)),
            creds |-> cr, exch |-> last]
      [] f.ep = "refresh" ->
           LET r == refreshAccessToken(cr, out, nowMs) IN
           [frame |-> IF f.op \in Unguarded
                      THEN IF r.ok THEN Returns(g, Undef)
                           ELSE Throws(g, RaisedBy("refresh", r.err))
                      ELSE AfterRefresh(g, r),
            creds |-> r.creds,
            exch |-> Exchanged(r, out, nowMs, last)]
      [] f.ep = "token" ->
           LET r == authenticate(cr, out, nowMs) IN
           [frame |-> IF f.op \in Unguarded
                      THEN IF r.ok THEN Returns(g, Undef)
                           ELSE Throws(g, RaisedBy("token", r.err))
                      ELSE AfterAuthenticate(g, r),
            creds |-> r.creds,
            exch |-> Exchanged(r, out, nowMs, last)]

\* ------------------------------------------------- generateMediaAndWait
\* a MediaResult
MediaResult(success, url, mimeType, provider, modelId, error) ==
    [success |-> success, url |-> url, mimeType |-> mimeType,
     provider |-> provider, modelId |-> modelId, error |-> error]
NoMediaResult == MediaResult(Undef, Undef, Undef, Undef, Undef, Undef)

\* the results a finished job may carry
ServerResults ==
    {MediaResult(Bool(TRUE), Str("https://cdn.zilligon.com/1.png"),
                 Str("image/png"), Str("fal"), Str("flux"), Undef),
     MediaResult(Bool(FALSE), Undef, Str(""), Str("fal"), Str("flux"),
                 Str("Content policy"))}

\* the data of POST /v1/media/generate: a MediaGenerationJob, or null
JobData(k, jobId) == [k |-> k, jobId |-> jobId]
SubmitData == {JobData("obj", Str("job_1")), JobData("null", Undef)}

\* the data of GET /v1/media/status/:jobId: the job's status, with a result
\* attached or not, or null
StatusData(k, status, attached, result) ==
    [k |-> k, status |-> status, attached |-> attached, result |-> result]
NoStatus == StatusData("undefined", Undef, FALSE, NoMediaResult)
JobStatuses == {"queued", "processing", "completed", "failed"}
StatusPayloads ==
    {StatusData("null", Undef, FALSE, NoMediaResult)}
    \cup {StatusData("obj", Str(st), FALSE, NoMediaResult) : st \in JobStatuses}
    \cup {StatusData("obj", Str(st), TRUE, r) :
              st \in {"processing", "completed", "failed"}, r \in ServerResults}

\* what the request() of a resource operation may throw: a timeout, a
\* transport failure, a server error, a rejected API key, and the raw
\* TypeError of authenticate
ResourceFailures ==
    {RaisedBy("target", ZilligonError(Str("Request timed out"),
                                      Str("TIMEOUT"), Undef)),
     RaisedBy("target", ZilligonError(Str("fetch failed"),
                                      Str("NETWORK_ERROR"), Undef)),
     RaisedBy("target", ZilligonError(StrN("Request failed with status ", 500),
                                      Str("API_ERROR"), Num(500))),
     RaisedBy("token", ZilligonError(Str("Y"), Str("INVALID_TOKEN"), Num(401))),
     RaisedBy("token", JsError("TypeError",
                               Str("Cannot read properties of null")))}

\* how submitMediaJob and getMediaJobStatus may settle
Settled(data) == [kind |-> "ok", data |-> data, raised |-> RaisedBy("none", NoError)]
Failed(data, raised) == [kind |-> "err", data |-> data, raised |-> raised]
SubmitOutcomes ==
    {Settled(d) : d \in SubmitData}
    \cup {Failed(JobData("undefined", Undef), e) : e \in ResourceFailures}
StatusOutcomes ==
    {Settled(d) : d \in StatusPayloads}
    \cup {Failed(NoStatus, e) : e \in ResourceFailures}

\* the input of generateMediaAndWait: its model, given or not
MediaInputs == {[model |-> Undef], [model |-> Str("flux")]}

\* The frame of generateMediaAndWait: where it is suspended (on
\* submitMediaJob, on the sleep, on getMediaJobStatus, or finished), its
\* input, job.jobId, startTime, the status fetches it has made, the last
\* status it received, its result, and the statement it left by.
IdleJob ==
    [pc |-> "idle", input |-> [model |-> Undef], jobId |-> Undef,
     startTime |-> 0, polls |-> 0, last |-> NoStatus,
     result |-> [kind |-> "none", value |-> NoMediaResult, err |-> NoError,
                 from |-> "none"],
     exit |-> "none"]

JobReturns(j, value, exit) ==
    [j EXCEPT !.pc = "done", !.exit = exit,
              !.result = [kind |-> "ok", value |-> value, err |-> NoError,
                          from |-> "none"]]
JobThrows(j, raised) ==
    [j EXCEPT !.pc = "done", !.exit = "raised",
              !.result = [kind |-> "err", value |-> NoMediaResult,
                          err |-> raised.err, from |-> raised.from]]

\* the result generateMediaAndWait makes up for a failed or timed out job
Synthesized(input, error) ==
    MediaResult(Bool(FALSE), Undef, Str(""), Str("unknown"),
                JsOr(input.model, Str("unknown")), Str(error))

\* a loop that still polls when the ceiling is just reached
LoopContinuesInclusive(startTime, nowMs) == nowMs - startTime <= maxWaitMs
\* while (Date.now() - startTime < maxWaitMs)
LoopContinues(startTime, nowMs) == nowMs - startTime < maxWaitMs

\* the loop test, and the timeout result after the loop
LoopHead(j, nowMs) ==
    IF LoopContinues(j.startTime, nowMs) THEN [j EXCEPT !.pc = "sleep"]
    ELSE JobReturns(j, Synthesized(j.input, "Media generation timed out"),
                    "timeout")

\* a poller that fetches the status as soon as the job is submitted
AfterSubmitFetchesFirst(j, out, nowMs) ==
    IF out.kind = "err" THEN JobThrows(j, out.raised)
    ELSE IF out.data.k # "obj"
    THEN JobThrows(j, RaisedBy("poller",
                               JsError("TypeError",
                                       Str("Cannot read properties of null"))))
    ELSE [j EXCEPT !.jobId = out.data.jobId, !.startTime = nowMs,
                   !.pc = "status"]

\* generateMediaAndWait after `await this.submitMediaJob(...)`
AfterSubmit(j, out, nowMs) ==
    IF out.kind = "err" THEN JobThrows(j, out.raised)
    ELSE IF out.data.k # "obj"
    THEN JobThrows(j, RaisedBy("poller",
                               JsError("TypeError",
                                       Str("Cannot read properties of null"))))
    ELSE LoopHead([j EXCEPT !.jobId = out.data.jobId, !.startTime = nowMs],
                  nowMs)

\* a loop body that takes a completed job without looking at its result
AfterStatusAnyResult(j, out, nowMs) ==
    LET g == [j EXCEPT !.last = out.data] IN
    IF out.kind = "err" THEN JobThrows(g, out.raised)
    ELSE IF out.data.k # "obj"
    THEN JobThrows(g, RaisedBy("poller",
                               JsError("TypeError",
                                       Str("Cannot read properties of null"))))
    ELSE IF out.data.status = Str("completed")
    THEN JobReturns(g, Synthesized(g.input, "Media generation failed"),
                    "completed")
    ELSE IF out.data.status = Str("failed")
    THEN JobReturns(g, Synthesized(g.input, "Media generation failed"),
                    "failed")
    ELSE LoopHead(g, nowMs)

\* a loop body that polls on after a failed status
AfterStatusKeepsPolling(j, out, nowMs) ==
    LET g == [j EXCEPT !.last = out.data] IN
    IF out.kind = "err" THEN JobThrows(g, out.raised)
    ELSE IF out.data.k # "obj"
    THEN JobThrows(g, RaisedBy("poller",
                               JsError("TypeError",
                                       Str("Cannot read properties of null"))))
    ELSE IF out.data.status = Str("completed") /\ out.data.attached
    THEN JobReturns(g, out.data.result, "completed")
    ELSE LoopHead(g, nowMs)

\* a loop body that throws for a failed job
AfterStatusFailedThrows(j, out, nowMs) ==
    LET g == [j EXCEPT !.last = out.data] IN
    IF out.kind = "err" THEN JobThrows(g, out.raised)
    ELSE IF out.data.k # "obj"
    THEN JobThrows(g, RaisedBy("poller",
                               JsError("TypeError",
                                       Str("Cannot read properties of null"))))
    ELSE IF out.data.status = Str("completed") /\ out.data.attached
    THEN JobReturns(g, out.data.result, "completed")
    ELSE IF out.data.status = Str("failed")
    THEN JobThrows(g, RaisedBy("poller",
                               ZilligonError(Str("Media generation failed"),
                                             Str("MEDIA_GENERATION_FAILED"),
                                             Undef)))
    ELSE LoopHead(g, nowMs)

\* the loop body after `await this.getMediaJobStatus(job.jobId)`
AfterStatus(j, out, nowMs) ==
    LET g == [j EXCEPT !.last = out.data] IN
    IF out.kind = "err" THEN JobThrows(g, out.raised)
    ELSE IF out.data.k # "obj"
    THEN JobThrows(g, RaisedBy("poller",
                               JsError("TypeError",
                                       Str("Cannot read properties of null"))))
    ELSE IF out.data.status = Str("completed") /\ out.data.attached
    THEN JobReturns(g, out.data.result, "completed")
    ELSE IF out.data.status = Str("failed")
    THEN JobReturns(g, Synthesized(g.input, "Media generation failed"),
                    "failed")
    ELSE LoopHead(g, nowMs)

\* how long a sleep of pollIntervalMs may take (the timer may fire late), and
\* how long a request() may take (at most its timeout)
SleepTimes == {pollIntervalMs, pollIntervalMs + DEFAULT_TIMEOUT}
RequestTimes == {0, DEFAULT_TIMEOUT}

\* ------------------------------------------- the adapter's tool handler
\* the tools of TOOLS, and the ones whose arguments the handler gives to a
\* zod schema
Tools ==
    {"zilligon_create_post", "zilligon_get_feed", "zilligon_create_comment",
     "zilligon_react", "zilligon_follow", "zilligon_get_my_profile",
     "zilligon_list_communities", "zilligon_join_community"}
Parsed ==
    {"zilligon_create_post", "zilligon_get_feed", "zilligon_create_comment",
     "zilligon_react", "zilligon_follow"}

\* The arguments of a tool call: present or not, meeting the tool's
\* inputSchema or not, and whether they carry a handle, an agentId
\* (zilligon_follow) and a communitySlug (zilligon_get_feed).
Args(shape, handle, agentId, communitySlug) ==
    [shape |-> shape, handle |-> handle, agentId |-> agentId,
     communitySlug |-> communitySlug]
ArgsOf(name) ==
    {Args("absent", FALSE, FALSE, FALSE), Args("invalid", FALSE, FALSE, FALSE)}
    \cup CASE name = "zilligon_follow" ->
                {Args("valid", h, a, FALSE) : h \in BOOLEAN, a \in BOOLEAN}
            [] name = "zilligon_get_feed" ->
                {Args("valid", FALSE, FALSE, c) : c \in BOOLEAN}
            [] OTHER -> {Args("valid", FALSE, FALSE, FALSE)}

\* what a client operation called by the handler may come to: an object, null
\* or an error of request()
ClientOutcomes ==
    {[kind |-> "ok", data |-> d, err |-> NoError] : d \in {Obj, Null}}
    \cup {[kind |-> "err", data |-> Undef, err |-> e.err] :
              e \in ResourceFailures}

\* the object the handler returns to the protocol layer
Reply(isError, success, error) ==
    [isError |-> isError, success |-> success, error |-> error]

\* The frame of the handler: where it is (idle, awaiting a client operation,
\* done), the call it handles, the client operations it has called, what it
\* returned, and whether it threw instead.
IdleTool ==
    [pc |-> "idle", name |-> "", args |-> Args("absent", FALSE, FALSE, FALSE),
     ops |-> <<>>, reply |-> Reply(FALSE, Undef, Undef), raised |-> FALSE,
     failure |-> NoError]

\* the handler awaits a client operation
Awaits(h, op) == [h EXCEPT !.pc = "await", !.ops = Append(@, op)]

\* a catch block that throws the error on
CatchRethrows(h, error) ==
    [h EXCEPT !.pc = "done", !.raised = TRUE, !.failure = error]

\* the catch block of the handler
Catch(h, error) ==
    [h EXCEPT !.pc = "done", !.failure = error,
              !.reply = Reply(TRUE, Bool(FALSE),
                              IF error.cls # "none" THEN error.message
                              ELSE Str("Unknown error"))]

\* the handler up to its first await
Handle(h) ==
    CASE h.name \notin Tools ->
           Catch(h, JsError("Error", StrN("Unknown tool: ", 0)))
      [] h.name \in Parsed /\ h.args.shape # "valid" ->
           \* Schema.parse(args) throws
           Catch(h, JsError("ZodError", Str("Invalid input")))
      [] h.name = "zilligon_create_post" -> Awaits(h, "createPost")
      [] h.name = "zilligon_get_feed" ->
           IF h.args.communitySlug THEN Awaits(h, "getCommunityFeed")
           ELSE Awaits(h, "getGlobalFeed")
      [] h.name = "zilligon_create_comment" -> Awaits(h, "createComment")
      [] h.name = "zilligon_react" -> Awaits(h, "react")
      [] h.name = "zilligon_follow" ->
           IF h.args.handle THEN Awaits(h, "getAgentByHandle")
           ELSE IF h.args.agentId THEN Awaits(h, "follow")
           ELSE Catch(h, JsError("Error",
                                 Str("Either agentId or handle is required")))
      [] h.name = "zilligon_get_my_profile" -> Awaits(h, "getMe")
      [] h.name = "zilligon_list_communities" -> Awaits(h, "listCommunities")
      [] h.name = "zilligon_join_community" ->
           IF h.args.shape = "absent"
           THEN Catch(h, JsError("TypeError",
                                 Str("Cannot read properties of undefined")))
           ELSE Awaits(h, "joinCommunity")

\* the handler after the client operation it awaits has settled
AfterClient(h, out) ==
    LET op == h.ops[Len(h.ops)]
        \* the client operations whose result the handler does not read
        unread == {"react", "follow", "joinCommunity"}
    IN
    IF out.kind = "err" THEN Catch(h, out.err)
    ELSE IF op \notin unread /\ out.data.k # "obj"
    THEN Catch(h, JsError("TypeError", Str("Cannot read properties of null")))
    ELSE IF op = "getAgentByHandle" THEN Awaits(h, "follow")
    ELSE \* a return of the try block
         [h EXCEPT !.pc = "done", !.reply = Reply(FALSE, Bool(TRUE), Undef)]

\* ------------------------------------------------------------ debug log
\* a member of an object given to JSON.stringify
Member(name, value) == [name |-> name, value |-> value]

\* the decimal digits of a natural number
RECURSIVE Digits(_)
Digits(n) == IF n < 10 THEN 1 ELSE 1 + Digits(n \div 10)

\* the characters of the JSON text of a value; a token text has tokenChars
\* characters
JsonChars(v, tokenChars) ==
    CASE v.k = "str" /\ v.s \in {"at", "rt"} -> tokenChars + 2
      [] v.k = "str" -> Len(v.s) + 2
      [] v.k = "num" -> Digits(v.n)
      [] v.k = "bool" -> IF v.n = 1 THEN 4 ELSE 5
      [] OTHER -> 4

\* JSON.stringify leaves out the members whose value is undefined
Stringified(members) == SelectSeq(members, LAMBDA m : m.value.k # "undefined")

\* the position of the last character of the i-th member's value in
\* JSON.stringify(object)
RECURSIVE EndOfMember(_, _, _)
EndOfMember(members, i, tokenChars) ==
    (IF i = 1 THEN 1 ELSE EndOfMember(members, i - 1, tokenChars) + 1)
    + Len(members[i].name) + 3 + JsonChars(members[i].value, tokenChars)

\* the values that JSON.stringify(object).slice(0, 200) shows whole
Slice(members, tokenChars) ==
    LET kept == Stringified(members) IN
    {kept[i].value : i \in {j \in 1..Len(kept) :
                                EndOfMember(kept, j, tokenChars) <= LOG_SLICE}}

\* a line given to console.log: its text, and the values it shows
LogLine(text, shows) == [text |-> text, shows |-> shows]

\* `${method} ${path}` of the request to an endpoint
MethodAndPath(ep) ==
    CASE ep = "token" -> "POST /v1/auth/token"
      [] ep = "refresh" -> "POST /v1/auth/refresh"
      [] OTHER -> "GET /v1/agents/me"

\* the body authenticate and refreshAccessToken give to request()
RequestBody(ep, cr, cfg) ==
    CASE ep = "token" -> <<Member("apiKey", cfg.apiKey)>>
      [] ep = "refresh" -> <<Member("refreshToken", cr.refreshToken)>>
      [] OTHER -> <<>>

\* the members of data.data
DataMembers(data) ==
    IF data.k = "obj"
    THEN <<Member("accessToken", data.accessToken),
           Member("refreshToken", data.refreshToken),
           Member("expiresIn", data.expiresIn)>>
    ELSE <<>>

\* what a request() that has just called the transport has logged before
RequestLine(g, cr, cfg, tokenChars) ==
    IF g.pc = "fetch"
    THEN {LogLine(MethodAndPath(g.ep),
                  Slice(RequestBody(g.ep, cr, cfg), tokenChars))}
    ELSE {}

\* what the completed request() of frame f and its callers have logged
ResponseLines(f, out, stored, tokenChars) ==
    (IF out.kind = "ok"
     THEN {LogLine("Response:", Slice(DataMembers(out.data), tokenChars))}
     ELSE {})
    \cup (IF stored /\ f.ep = "token"
          THEN {LogLine("Authenticated successfully, token expires in",
                        {out.data.expiresIn})}
          ELSE {})
    \cup (IF stored /\ f.ep = "refresh"
          THEN {LogLine("Token refreshed successfully", {})}
          ELSE {})
    \cup (IF ~stored /\ f.ep = "refresh" /\ f.op \notin Unguarded
          THEN {LogLine("Token refresh failed, getting new tokens", {})}
          ELSE {})

\* log(...args): console.log when this.config.debug
Log(cfg, lines) == IF Truthy(cfg.debug) THEN lines ELSE {}

\* setTimeout(() => controller.abort(), this.config.timeout), set by the
\* request() that has just called the transport
SetTimeout(ts, t, f, nowMs) ==
    IF f.pc = "fetch"
    THEN ts \cup {[owner |-> t, call |-> Len(f.calls) + 1,
                   deadline |-> nowMs + DEFAULT_TIMEOUT]}
    ELSE ts

\* ------------------------------------------------------------------ state
VARIABLES
    accessToken,      \* this.accessToken
    refreshToken,     \* this.refreshToken
    tokenExpiresAt,   \* this.tokenExpiresAt
    now,              \* Date.now()
    task,             \* the frame of each caller
    timers,           \* the pending timeout timers
    issued,           \* the number of pairs the server has issued
    lastExchange,     \* the last successful credential exchange
    config,           \* this.config
    env,              \* the platform: whether it has a global fetch, and
                      \* the length of the token texts the server issues
    ctor,             \* the constructor call: its argument and its outcome
    logged,           \* the lines the last step gave to console.log
    job,              \* the frame of generateMediaAndWait
    caught,           \* an error a caller has caught, and what its
                      \* predicates say of it
    tool              \* the frame of the adapter server's tool-call handler

vars == <<accessToken, refreshToken, tokenExpiresAt, now, task, timers,
          issued, lastExchange, config, env, ctor, logged, job, caught, tool>>

CurrentCreds == Creds(accessToken, refreshToken, tokenExpiresAt)

\* the lengths of the token texts a server may issue
TokenChars == {32, 512}

\* the platform the client runs on
Platform(fetch, tokenChars) == [fetch |-> fetch, tokenChars |-> tokenChars]

\* the constructor call: its argument, whether it has run, what it threw
Construction(args, done, err) == [args |-> args, done |-> done, err |-> err]

\* the fields of a client as its declaration initializes them, with nothing
\* in flight
Fresh ==
    /\ accessToken = Null
    /\ refreshToken = Null
    /\ tokenExpiresAt = Null
    /\ now = ClockStep
    /\ task = [t \in Callers |-> IdleFrame]
    /\ timers = {}
    /\ issued = 0
    /\ lastExchange = NoExchange
    /\ logged = {}
    /\ job = IdleJob

\* no error has been caught
NoneCaught ==
    /\ caught = Caught(NoError, FALSE, FALSE, FALSE)
    /\ tool = IdleTool

\* a client constructed from args on a platform that has a global fetch
Constructed(args) ==
    /\ Fresh
    /\ NoneCaught
    /\ ctor = Construction(args, TRUE, NoError)
    /\ config = ZilligonClient(args, TRUE).config

\* the client of the quick start
Init ==
    /\ Constructed(QuickStart)
    /\ env = Platform(TRUE, 32)

\* the same client with debug logging on
InitDebug ==
    /\ Constructed(QuickStartDebug)
    /\ \E c \in TokenChars : env = Platform(TRUE, c)

\* a constructor call about to be made, with any argument on any platform
InitCtor ==
    /\ Fresh
    /\ NoneCaught
    /\ \E args \in Configs : ctor = Construction(args, FALSE, NoError)
    /\ config = NoConfig
    /\ \E fetch \in BOOLEAN : env = Platform(fetch, 32)

\* a constructed client, with debug logging on, that has not called
\* generateMediaAndWait yet
InitPoll ==
    /\ Constructed(QuickStartDebug)
    /\ env = Platform(TRUE, 32)

\* the frame of t, the credential state and the last exchange become those
\* of r; a request() that has called the transport has set its timer
Apply(t, r, ts, lines) ==
    /\ logged' = Log(config, lines \cup RequestLine(r.frame, r.creds, config,
                                                   env.tokenChars))
    /\ UNCHANGED <<config, env, ctor, job, caught, tool>>
    /\ task' = [task EXCEPT ![t] = r.frame]
    /\ accessToken' = r.creds.accessToken
    /\ refreshToken' = r.creds.refreshToken
    /\ tokenExpiresAt' = r.creds.tokenExpiresAt
    /\ lastExchange' = r.exch
    /\ timers' = SetTimeout(ts, t, r.frame, now)

\* the lines logged when the request() of frame f completes with out
Written(f, out) ==
    ResponseLines(f, out, Stores(f, CurrentCreds, out, now), env.tokenChars)

\* a caller calls an operation of the client
Start(t, op) ==
    /\ task[t].op = "idle"
    /\ LET f == [IdleFrame EXCEPT
                    !.op = op,
                    !.snap = [accessToken |-> accessToken,
                              refreshToken |-> refreshToken,
                              tokenExpiresAt |-> tokenExpiresAt,
                              now |-> now]]
       IN Apply(t, [frame |-> Begin(f, CurrentCreds, now),
                    creds |-> CurrentCreds, exch |-> lastExchange], timers,
                {})
    /\ UNCHANGED <<now, issued>>

\* the transport call resolves with a response; the server may have issued a
\* new pair for it
FetchResolves(t, status, issue) ==
    /\ task[t].pc = "fetch"
    /\ issue => task[t].ep # "target" /\ issued < MaxIssue
    /\ issued' = IF issue THEN issued + 1 ELSE issued
    /\ task' = [task EXCEPT ![t].pc = "json", ![t].status = status,
                            ![t].pair = IF issue THEN issued + 1 ELSE 0]
    /\ timers' = ClearOnResponse(timers, t, Len(task[t].calls) + 1)
    /\ logged' = {}
    /\ UNCHANGED <<accessToken, refreshToken, tokenExpiresAt, now,
                   lastExchange, config, env, ctor, job, caught, tool>>

\* response.json() settles
JsonResolves(t, body) ==
    /\ task[t].pc = "json"
    /\ LET f == task[t]
           tried == TryBody(f.status, body)
           ts == IF tried.kind = "err"
                 THEN ClearInCatch(timers, t, Len(f.calls) + 1)
                 ELSE timers
       IN Apply(t, Continue(f, CurrentCreds, RequestOutcome(tried), now,
                            lastExchange, Response(f.status, body)), ts,
                Written(f, RequestOutcome(tried)))
    /\ UNCHANGED <<now, issued>>

\* the transport call fails by itself
FetchRejects(t, error) ==
    /\ task[t].pc = "fetch"
    /\ LET f == task[t] IN
       Apply(t, Continue(f, CurrentCreds, RequestOutcome(Throw(error)), now,
                         lastExchange, NoResponse),
             ClearInCatch(timers, t, Len(f.calls) + 1),
             Written(f, RequestOutcome(Throw(error))))
    /\ UNCHANGED <<now, issued>>

\* a timeout timer fires: controller.abort(), and the transport call, if
\* still pending, fails with an AbortError
TimeoutFires(x) ==
    /\ x \in timers
    /\ now >= x.deadline
    /\ LET t == x.owner
           f == task[t]
           ts == timers \ {x}
       IN IF f.pc = "fetch" /\ x.call = Len(f.calls) + 1
          THEN Apply(t, Continue(f, CurrentCreds,
                                 RequestOutcome(Throw(AbortError)), now,
                                 lastExchange, Aborted),
                     ClearInCatch(ts, t, x.call),
                     Written(f, RequestOutcome(Throw(AbortError))))
          ELSE /\ timers' = ts
               /\ logged' = {}
               /\ UNCHANGED <<accessToken, refreshToken, tokenExpiresAt, task,
                              lastExchange, config, env, ctor, job, caught, tool>>
    /\ UNCHANGED <<now, issued>>

\* time passes; a timer fires when it is due
Tick ==
    /\ now < ClockStep * MaxTicks
    /\ \A x \in timers : now < x.deadline
    /\ now' = now + ClockStep
    /\ logged' = {}
    /\ UNCHANGED <<accessToken, refreshToken, tokenExpiresAt, task, timers,
                   issued, lastExchange, config, env, ctor, job, caught, tool>>

\* the caller takes the result of its finished operation
Release(t) ==
    /\ task[t].pc = "done"
    /\ task' = [task EXCEPT ![t] = IdleFrame]
    /\ logged' = {}
    /\ UNCHANGED <<accessToken, refreshToken, tokenExpiresAt, now, timers,
                   issued, lastExchange, config, env, ctor, job, caught, tool>>

Next ==
    \/ \E t \in DOMAIN task, op \in Ops : Start(t, op)
    \/ \E t \in DOMAIN task, status \in Statuses, issue \in BOOLEAN :
          FetchResolves(t, status, issue)
    \/ \E t \in DOMAIN task : \E body \in Bodies(task[t].ep, task[t].pair) :
          JsonResolves(t, body)
    \/ \E t \in DOMAIN task, error \in TransportErrors : FetchRejects(t, error)
    \/ \E x \in timers : TimeoutFires(x)
    \/ Tick
    \/ \E t \in DOMAIN task : Release(t)

Spec == Init /\ [][Next]_vars

\* -------------------------------------------------- overlapping operations
\* The client of the quick start, with two callers whose operations may
\* overlap and nothing in flight: fresh, or after an authenticate() that was
\* answered with the first pair, with a lifetime of 60 s (stale as soon as it
\* is stored).
InitConc ==
    /\ now = ClockStep
    /\ \/ /\ accessToken = Null
          /\ refreshToken = Null
          /\ tokenExpiresAt = Null
          /\ issued = 0
          /\ lastExchange = NoExchange
       \/ LET FirstPair == Payload("obj", AccessOf(1), RefreshOf(1), Num(60))
              stored == StoreCredentials(Creds(Null, Null, Null), FirstPair,
                                         now)
          IN /\ accessToken = stored.accessToken
             /\ refreshToken = stored.refreshToken
             /\ tokenExpiresAt = stored.tokenExpiresAt
             /\ issued = 1
             /\ lastExchange = [set |-> TRUE, data |-> FirstPair, at |-> now]
    /\ task = [t \in {"A", "B"} |-> IdleFrame]
    /\ timers = {}
    /\ logged = {}
    /\ job = IdleJob
    /\ NoneCaught
    /\ ctor = Construction(QuickStart, TRUE, NoError)
    /\ config = ZilligonClient(QuickStart, TRUE).config
    /\ env = Platform(TRUE, 32)

\* the responses they get: 200 with a success envelope and any data, or 401
\* with an error envelope
AnsweredBodies(ep, n, status) ==
    IF ResponseOk(status)
    THEN {Envelope(TRUE, d, NoErrorMember) : d \in DataOf(ep, n)}
    ELSE {Envelope(FALSE, NoData, ErrorMember(Str("INVALID_TOKEN"), Str("Y")))}

\* each caller calls one authenticated operation
NextConc ==
    \/ \E t \in DOMAIN task, op \in {"request", "ensureValidToken"} :
          Start(t, op)
    \/ \E t \in DOMAIN task, status \in {200, 401}, issue \in BOOLEAN :
          FetchResolves(t, status, issue)
    \/ \E t \in DOMAIN task :
          \E body \in AnsweredBodies(task[t].ep, task[t].pair,
                                     task[t].status) :
              JsonResolves(t, body)
    \/ \E t \in DOMAIN task, error \in TransportErrors : FetchRejects(t, error)

ConcSpec == InitConc /\ [][NextConc]_vars

\* the same operations on a client with debug logging on
LogSpec == InitDebug /\ [][Next]_vars

\* ---------------------------------------------------- the constructor call
\* new ZilligonClient(config)
Construct ==
    /\ ~ctor.done
    /\ LET r == ZilligonClient(ctor.args, env.fetch) IN
       /\ ctor' = Construction(ctor.args, TRUE, r.err)
       /\ config' = r.config
    /\ UNCHANGED <<accessToken, refreshToken, tokenExpiresAt, now, task,
                   timers, issued, lastExchange, env, logged, job, caught, tool>>

NextCtor == Construct

CtorSpec == InitCtor /\ [][NextCtor]_vars

\* ------------------------------------------------- the error predicates
\* a caller holds a ZilligonError of the taxonomy
InitCaught ==
    /\ Fresh
    /\ ctor = Construction(QuickStart, TRUE, NoError)
    /\ config = ZilligonClient(QuickStart, TRUE).config
    /\ env = Platform(TRUE, 32)
    /\ \E error \in ZilligonErrors : caught = Caught(error, FALSE, FALSE, FALSE)
    /\ tool = IdleTool

\* the caller calls the predicates of the error
Classify ==
    /\ ~caught.asked
    /\ caught' = Caught(caught.error, TRUE, isAuthError(caught.error),
                        isServerError(caught.error))
    /\ UNCHANGED <<accessToken, refreshToken, tokenExpiresAt, now, task,
                   timers, issued, lastExchange, config, env, ctor, logged,
                   job, tool>>

NextCaught == Classify

ErrorSpec == InitCaught /\ [][NextCaught]_vars

\* ------------------------------------------- the adapter's tool calls
\* what the handler leaves unchanged: the client's operations are taken by
\* their outcome
beside == <<accessToken, refreshToken, tokenExpiresAt, now, task, timers,
            issued, lastExchange, config, env, ctor, logged, job, caught>>

\* the protocol layer calls the handler with a tool call
CallTool(name, args) ==
    /\ tool.pc = "idle"
    /\ tool' = Handle([IdleTool EXCEPT !.name = name, !.args = args])
    /\ UNCHANGED beside

\* the client operation the handler awaits settles
ClientSettles(out) ==
    /\ tool.pc = "await"
    /\ tool' = AfterClient(tool, out)
    /\ UNCHANGED beside

\* the protocol layer has the reply
Replied ==
    /\ tool.pc = "done"
    /\ tool' = IdleTool
    /\ UNCHANGED beside

NextTool ==
    \/ \E name \in Tools \cup {"zilligon_unfollow"} :
           \E args \in ArgsOf(name) : CallTool(name, args)
    \/ \E out \in ClientOutcomes : ClientSettles(out)
    \/ Replied

\* the adapter's client is the client of the quick start
ToolSpec == Init /\ [][NextTool]_vars

\* -------------------------------------------------- generateMediaAndWait
\* The poller's steps.  submitMediaJob and getMediaJobStatus are request()
\* calls: here each settles in one step with one of the outcomes of
\* request(), and the credential state they may refresh is left aside.
\* what the poller leaves unchanged
client == <<accessToken, refreshToken, tokenExpiresAt, task, timers, issued,
            lastExchange, config, env, ctor, caught, tool>>

\* generateMediaAndWait(input) is called: it calls submitMediaJob and awaits
GenerateMediaAndWait(input) ==
    /\ job.pc = "idle"
    /\ job' = [IdleJob EXCEPT !.pc = "submit", !.input = input]
    /\ logged' = {}
    /\ UNCHANGED <<now, client>>

\* submitMediaJob settles, some time after it was called
SubmitSettles(out, elapsed) ==
    /\ job.pc = "submit"
    /\ now' = now + elapsed
    /\ job' = AfterSubmit(job, out, now')
    /\ logged' = Log(config,
                     IF out.kind = "ok" /\ out.data.k = "obj"
                     THEN {LogLine("Media job submitted:", {out.data.jobId})}
                     ELSE {})
    /\ UNCHANGED client

\* the sleep of pollIntervalMs ends, no earlier than asked, and
\* getMediaJobStatus is called
SleepEnds(elapsed) ==
    /\ job.pc = "sleep"
    /\ now' = now + elapsed
    /\ job' = [job EXCEPT !.pc = "status", !.polls = @ + 1]
    /\ logged' = {}
    /\ UNCHANGED client

\* getMediaJobStatus settles, some time after it was called
StatusSettles(out, elapsed) ==
    /\ job.pc = "status"
    /\ now' = now + elapsed
    /\ job' = AfterStatus(job, out, now')
    /\ logged' = Log(config,
                     IF job'.exit \in {"none", "timeout"}
                     THEN {LogLine("Job progress:", {job.jobId})}
                     ELSE {})
    /\ UNCHANGED client

NextPoll ==
    \/ \E input \in MediaInputs : GenerateMediaAndWait(input)
    \/ \E out \in SubmitOutcomes, e \in RequestTimes : SubmitSettles(out, e)
    \/ \E e \in SleepTimes : SleepEnds(e)
    \/ \E out \in StatusOutcomes, e \in RequestTimes : StatusSettles(out, e)

PollSpec == InitPoll /\ [][NextPoll]_vars

\* every request() settles (its timer sees to that) and every sleep ends
FairPollSpec == PollSpec /\ WF_vars(NextPoll)

\* ------------------------------------------------------------ properties
\* the transport calls frame f has made to an endpoint, the pending one
\* included
CallsTo(f, ep) ==
    Cardinality({i \in 1..Len(f.calls) : f.calls[i].ep = ep})
    + (IF f.pc \in {"fetch", "json"} /\ f.ep = ep THEN 1 ELSE 0)

\* a present (non-empty) string
Present(v) == v.k = "str" /\ v # Str("")

\* the client held, in state s, an access token and an expiry more than 60 s
\* ahead
HeldValid(s) ==
    /\ Present(s.accessToken)
    /\ s.tokenExpiresAt.k = "num"
    /\ s.now + 60000 < s.tokenExpiresAt.n

\* frame f runs ensureValidToken: on its own, or inside a resource operation
RunsEnsure(f) == f.op \in {"ensureValidToken", "request"}

\* C1: when the client holds an access token and an expiry and the time is
\* more than 60 s before that expiry, ensureValidToken returns the stored
\* access token and makes no transport call, neither refresh nor authenticate.
C1_ValidTokenNoTransport ==
    \A t \in DOMAIN task :
        LET f == task[t] IN
        (RunsEnsure(f) /\ HeldValid(f.snap)) =>
            /\ CallsTo(f, "refresh") = 0
            /\ CallsTo(f, "token") = 0
            /\ (f.op = "ensureValidToken") =>
                   (/\ f.pc = "done"
                    /\ f.calls = <<>>
                    /\ f.result.kind = "ok"
                    /\ f.result.value = f.snap.accessToken)
            /\ (f.op = "request" /\ f.pc \in {"fetch", "json"}) =>
                   (f.ep = "target" /\ f.header = f.snap.accessToken)

C1_Witness ==
    \E t \in DOMAIN task :
        /\ task[t].op = "ensureValidToken"
        /\ task[t].pc = "done"
        /\ HeldValid(task[t].snap)
        /\ task[t].result.value = task[t].snap.accessToken

\* the client held, in state s, a present but invalid access token and a
\* present refresh token
HeldStaleWithRefresh(s) ==
    /\ Present(s.accessToken)
    /\ ~HeldValid(s)
    /\ Present(s.refreshToken)

\* the refresh of frame f returned: refreshAccessToken stored credentials
RefreshSucceeded(f) ==
    /\ Len(f.calls) >= 1
    /\ f.calls[1].ep = "refresh"
    /\ f.calls[1].stored

\* ensureValidToken of frame f came back with this token, without calling
\* the authenticate endpoint
ReturnedWithoutAuthenticate(f, token) ==
    /\ CallsTo(f, "token") = 0
    /\ (f.op = "ensureValidToken") =>
           (f.pc = "done" /\ f.result.kind = "ok" /\ f.result.value = token)
    /\ (f.op = "request" /\ f.pc \in {"fetch", "json"}) =>
           (f.ep = "target" /\ f.header = token)

RefreshFailed(f) ==
    /\ RunsEnsure(f)
    /\ Len(f.calls) >= 1
    /\ f.calls[1].ep = "refresh"
    /\ ~f.calls[1].stored

\* C3: when the refresh attempt inside ensureValidToken fails, the failure is
\* swallowed and the authenticate endpoint is called exactly once; if
\* authenticate fails too, the error raised is authenticate's, never the
\* refresh's.
C3_RefreshFailureSwallowed ==
    \A t \in DOMAIN task :
        LET f == task[t] IN
        RefreshFailed(f) =>
            /\ CallsTo(f, "token") = 1
            /\ (f.pc = "done" /\ f.result.kind = "err") =>
                   f.result.from # "refresh"
            /\ (Len(f.calls) >= 2 /\ ~f.calls[2].stored) =>
                   (/\ f.pc = "done"
                    /\ f.result.kind = "err"
                    /\ f.result.from = "token")

C3_Witness ==
    \E t \in DOMAIN task :
        /\ RefreshFailed(task[t])
        /\ Len(task[t].calls) = 2
        /\ task[t].calls[2].ep = "token"
        /\ task[t].pc = "done"
        /\ task[t].result.kind = "err"
        /\ task[t].result.from = "token"

\* C4: a request made with skipAuth (the calls to the two credential
\* endpoints) never calls ensureValidToken and carries no Authorization
\* header, whatever the credential state; authenticate and
\* refreshAccessToken never enter token validation.
C4_SkipAuthNeverValidates ==
    \A t \in DOMAIN task :
        LET f == task[t] IN
        /\ \A i \in 1..Len(f.calls) :
               f.calls[i].ep \in {"token", "refresh"} =>
                   f.calls[i].header = NoHeader
        /\ (f.pc \in {"fetch", "json"} /\ f.ep \in {"token", "refresh"}) =>
               f.header = NoHeader
        /\ f.ensureCalls <= 1
        /\ f.op \in {"authenticate", "refreshAccessToken"} => f.ensureCalls = 0

C4_Witness ==
    \E t \in DOMAIN task :
        /\ task[t].op = "request"
        /\ task[t].pc = "fetch"
        /\ task[t].ep = "token"
        /\ task[t].header = NoHeader
        /\ task[t].ensureCalls = 1
        /\ ~Present(accessToken)

\* C5: a request whose transport call is still pending when its timeout
\* elapses is aborted and fails with a ZilligonError of code TIMEOUT; while a
\* transport call is pending its timer is pending too, due no later than the
\* configured timeout from now.
C5_TimeoutAborts ==
    \A t \in DOMAIN task :
        LET f == task[t] IN
        /\ \A i \in 1..Len(f.calls) :
               f.calls[i].aborted =>
                   (~f.calls[i].ok /\ f.calls[i].code = Str("TIMEOUT"))
        /\ (f.pc = "done" /\ f.resp.aborted) =>
               (/\ f.result.kind = "err"
                /\ f.result.err.cls = "ZilligonError"
                /\ f.result.err.code = Str("TIMEOUT"))
        /\ (f.pc = "fetch") =>
               \E x \in timers :
                   /\ x.owner = t
                   /\ x.call = Len(f.calls) + 1
                   /\ now <= x.deadline
                   /\ x.deadline <= now + 30000

C5_Witness ==
    \E t \in DOMAIN task :
        /\ task[t].pc = "done"
        /\ task[t].resp.aborted
        /\ task[t].result.err.code = Str("TIMEOUT")

\* C6: once a call to request has completed, by returning or by raising any
\* error, no timeout timer it created is pending: every pending timer is
\* that of a request still awaiting its response.
C6_NoTimerLeft ==
    \A x \in timers :
        /\ x.owner \in DOMAIN task
        /\ task[x.owner].pc \in {"fetch", "json"}
        /\ x.call = Len(task[x.owner].calls) + 1

C6_Witness ==
    \E t \in DOMAIN task :
        /\ task[t].op = "request"
        /\ task[t].pc = "done"
        /\ task[t].result.kind = "err"
        /\ task[t].result.from = "token"
        /\ Len(task[t].calls) = 2
        /\ ~task[t].calls[1].ok
        /\ timers = {}

\* the last request() of frame f received an envelope with success false and
\* an error member
GotErrorEnvelope(f) ==
    /\ f.pc = "done"
    /\ f.resp.body.kind = "envelope"
    /\ ~f.resp.body.success
    /\ f.resp.body.error.present

\* C7 as claimed: for every HTTP status, an envelope with success false and
\* error { code X, message Y } makes the request fail with a ZilligonError of
\* code X and message Y.
C7_AsClaimed ==
    \A t \in DOMAIN task :
        LET f == task[t] IN
        GotErrorEnvelope(f) =>
            /\ f.result.kind = "err"
            /\ f.result.err.cls = "ZilligonError"
            /\ f.result.err.code = f.resp.body.error.code
            /\ f.result.err.message = f.resp.body.error.message

\* C7, amended: for every HTTP status, an envelope with success false and
\* error { code X, message Y } makes the request fail with a ZilligonError
\* that carries the HTTP status, whose code is X when X is not empty and
\* whose message is Y when Y is not empty; it is never re-wrapped as
\* NETWORK_ERROR or TIMEOUT.
C7_ServerErrorSurfaces ==
    \A t \in DOMAIN task :
        LET f == task[t] IN
        GotErrorEnvelope(f) =>
            /\ f.result.kind = "err"
            /\ f.result.err.cls = "ZilligonError"
            /\ f.result.err.statusCode = Num(f.resp.status)
            /\ f.result.err.code \notin {Str("NETWORK_ERROR"), Str("TIMEOUT")}
            /\ Present(f.resp.body.error.code) =>
                   f.result.err.code = f.resp.body.error.code
            /\ Present(f.resp.body.error.message) =>
                   f.result.err.message = f.resp.body.error.message

C7_Witness ==
    \E t \in DOMAIN task :
        /\ GotErrorEnvelope(task[t])
        /\ task[t].resp.status = 200
        /\ task[t].resp.body.error.code = Str("INVALID_TOKEN")
        /\ task[t].result.err.code = Str("INVALID_TOKEN")
        /\ task[t].result.err.message = Str("Y")

\* C8: an exception of the transport call other than a timeout abort makes
\* the request fail with NETWORK_ERROR and the exception's message, and only
\* transport-level exceptions (the transport call throwing, the body not
\* being readable as JSON) are classified NETWORK_ERROR.
C8_OnlyTransportIsNetworkError ==
    \A t \in DOMAIN task :
        LET f == task[t] IN
        (f.pc = "done" /\ f.result.kind = "err") =>
            /\ (f.resp.body.kind = "none" /\ ~f.resp.aborted) =>
                   (/\ f.result.err.code = Str("NETWORK_ERROR")
                    /\ f.result.err.message = Str("fetch failed"))
            /\ (f.result.err.code = Str("NETWORK_ERROR")) =>
                   (f.resp.body.kind \in {"none", "invalid"} /\ ~f.resp.aborted)

\* C9: every failure that leaves a resource operation is a classified
\* ZilligonError carrying a code.
C9_EveryFailureClassified ==
    \A t \in DOMAIN task :
        LET f == task[t] IN
        (f.op = "request" /\ f.pc = "done" /\ f.result.kind = "err") =>
            (f.result.err.cls = "ZilligonError" /\ Present(f.result.err.code))

\* C10: a successful authenticate or refreshAccessToken stores credentials,
\* and the three fields are then those of that one response: accessToken and
\* refreshToken as the response has them, tokenExpiresAt the time of the
\* store plus the lifetime in seconds times 1000.
C10_ExchangeReplacesAll ==
    /\ lastExchange.set =>
           /\ accessToken = lastExchange.data.accessToken
           /\ refreshToken = lastExchange.data.refreshToken
           /\ (lastExchange.data.expiresIn.k = "num") =>
                  tokenExpiresAt =
                      Num(lastExchange.at + lastExchange.data.expiresIn.n * 1000)
    /\ \A t \in DOMAIN task :
           LET f == task[t] IN
           (/\ f.op \in {"authenticate", "refreshAccessToken"}
            /\ f.pc = "done"
            /\ f.result.kind = "ok") =>
               (f.calls[1].stored /\ lastExchange.set)

C10_Witness ==
    \E t \in DOMAIN task :
        /\ task[t].op = "refreshAccessToken"
        /\ task[t].pc = "done"
        /\ task[t].result.kind = "ok"
        /\ Present(task[t].snap.accessToken)
        /\ Present(task[t].snap.refreshToken)
        /\ task[t].snap.tokenExpiresAt.k = "num"
        /\ accessToken # task[t].snap.accessToken
        /\ refreshToken # task[t].snap.refreshToken
        /\ tokenExpiresAt # task[t].snap.tokenExpiresAt
        /\ lastExchange.data.expiresIn.k = "num"

\* the credential fields are those frame f started from
StoreUntouched(f) ==
    /\ accessToken = f.snap.accessToken
    /\ refreshToken = f.snap.refreshToken
    /\ tokenExpiresAt = f.snap.tokenExpiresAt

\* the credential fields are three usable values of the response data
StoreAllFrom(data, nowMs) ==
    /\ Present(data.accessToken)
    /\ Present(data.refreshToken)
    /\ data.expiresIn.k = "num"
    /\ accessToken = data.accessToken
    /\ refreshToken = data.refreshToken
    /\ tokenExpiresAt = Num(nowMs + data.expiresIn.n * 1000)

\* C11: an authenticate or refreshAccessToken call is all-or-nothing on the
\* credential store: when the exchange fails, or its response is only partly
\* usable (no expiresIn, say), the three fields afterwards are either three
\* usable values of the new response or exactly what they were before the
\* call, never a mixed or partly unusable state.
C11_AllOrNothing ==
    \A t \in DOMAIN task :
        LET f == task[t] IN
        (f.op \in {"authenticate", "refreshAccessToken"} /\ f.pc = "done") =>
            \/ StoreUntouched(f)
            \/ StoreAllFrom(f.resp.body.data, now)

\* C12: whenever an access token is present, an expiry instant is present
\* too; initially the three fields are absent.
C12_TokenHasExpiry ==
    /\ Present(accessToken) => tokenExpiresAt.k = "num"
    /\ (issued = 0) =>
           (accessToken = Null /\ refreshToken = Null /\ tokenExpiresAt = Null)
\* C13: generateMediaAndWait never raises: a submission failure, a status
\* fetch failure, a request timeout and a credential failure are all encoded
\* in the result it returns.
C13_NeverRaises ==
    (job.pc = "done") => (job.result.kind = "ok" /\ job.exit # "raised")

\* the last status fetched shows a completed job with a result attached
LastCompleted ==
    /\ job.last.k = "obj"
    /\ job.last.status = Str("completed")
    /\ job.last.attached

\* the last status fetched shows a failed job
LastFailed == job.last.k = "obj" /\ job.last.status = Str("failed")

\* C14: when a status fetch of generateMediaAndWait, the first one included,
\* returns a completed job with a result, generateMediaAndWait returns
\* exactly that result and fetches no further status.
C14_CompletedReturnsResult ==
    LastCompleted =>
        /\ job.pc = "done"
        /\ job.exit = "completed"
        /\ job.result.kind = "ok"
        /\ job.result.value = job.last.result
        /\ job.result.value \in ServerResults

C14_Witness ==
    /\ LastCompleted
    /\ job.pc = "done"
    /\ job.polls = 1
    /\ job.result.value = job.last.result
    /\ job.result.value.success = Bool(TRUE)

\* C15: when a status fetch returns a failed job, generateMediaAndWait
\* returns the result it makes up, with success false and the error "Media
\* generation failed", without raising and without another poll.
C15_FailedReturnsFailure ==
    LastFailed =>
        /\ job.pc = "done"
        /\ job.exit = "failed"
        /\ job.result.kind = "ok"
        /\ job.result.value.success = Bool(FALSE)
        /\ job.result.value.error = Str("Media generation failed")
        /\ job.result.value =
               Synthesized(job.input, "Media generation failed")

C15_Witness ==
    /\ LastFailed
    /\ job.last.attached
    /\ job.pc = "done"
    /\ job.polls = 2
    /\ job.result.kind = "ok"
    /\ job.result.value.error = Str("Media generation failed")
    /\ job.result.value.modelId = Str("unknown")

\* generateMediaAndWait has returned although no request() failed and the
\* last status fetched, if any, was not terminal
LeftWithoutTerminalStatus ==
    /\ job.pc = "done"
    /\ job.result.kind = "ok"
    /\ ~LastCompleted
    /\ ~LastFailed

\* what holds of the polls of generateMediaAndWait in every state
PollsBounded ==
    /\ job.polls <= maxWaitMs \div pollIntervalMs
    /\ LeftWithoutTerminalStatus =>
           /\ job.exit = "timeout"
           /\ job.result.value.success = Bool(FALSE)
           /\ job.result.value.error = Str("Media generation timed out")
           /\ job.result.value =
                  Synthesized(job.input, "Media generation timed out")
           /\ now - job.startTime >= maxWaitMs

\* C16: when the job never reaches a terminal state, generateMediaAndWait
\* ends and returns the result it makes up, with success false and the error
\* "Media generation timed out", after at most 300000 / 2000 = 150 status
\* polls, each sleep taking at least the poll interval.
C16_TimesOutWithinBound == []PollsBounded /\ <>(job.pc = "done")

C16_Witness ==
    /\ LeftWithoutTerminalStatus
    /\ job.exit = "timeout"
    /\ job.polls = maxWaitMs \div pollIntervalMs
    /\ job.result.value.error = Str("Media generation timed out")

\* C17 as claimed: isAuthenticated is false when no access token was ever
\* acquired, false when the time is within 60 s of the stored expiry or past
\* it, and true otherwise; it agrees with the validity check of
\* ensureValidToken in every state and at every time.
C17_AsClaimed ==
    \A t \in DOMAIN task :
        LET f == task[t] IN
        (f.op = "isAuthenticated" /\ f.pc = "done") =>
            /\ f.result.kind = "ok"
            /\ f.result.value = Bool(HeldValid(f.snap))
            /\ f.result.value = Bool(TokenIsValid(f.snap, f.snap.now))

\* C17, amended: isAuthenticated is false when no access token was ever
\* acquired, false when the time is at or past the stored expiry, and true
\* otherwise, without the 60 s margin; it is true whenever the validity
\* check of ensureValidToken holds, and the two differ exactly when a stored
\* token is within its last 60 s.
C17_NoSafetyMargin ==
    \A t \in DOMAIN task :
        LET f == task[t]
            ours == f.result.value = Bool(TRUE)
        IN
        (f.op = "isAuthenticated" /\ f.pc = "done") =>
            /\ f.result.kind = "ok"
            /\ f.result.value \in {Bool(TRUE), Bool(FALSE)}
            /\ ~Present(f.snap.accessToken) => ~ours
            /\ ours <=> (/\ Present(f.snap.accessToken)
                         /\ f.snap.tokenExpiresAt.k = "num"
                         /\ f.snap.now < f.snap.tokenExpiresAt.n)
            /\ TokenIsValid(f.snap, f.snap.now) => ours
            /\ (ours /\ ~TokenIsValid(f.snap, f.snap.now)) =>
                   f.snap.tokenExpiresAt.n - 60000 <= f.snap.now

C17_Witness ==
    \E t \in DOMAIN task :
        /\ task[t].op = "isAuthenticated"
        /\ task[t].pc = "done"
        /\ task[t].result.value = Bool(TRUE)
        /\ ~TokenIsValid(task[t].snap, task[t].snap.now)
        /\ task[t].snap.now < task[t].snap.tokenExpiresAt.n

\* C18: constructing a client without an API key (absent or empty) fails
\* with a ZilligonError of code CONFIG_ERROR, whatever the other fields of
\* the config are (base URL, timeout, debug flag, fetch supplied or not).
C18_NoKeyIsConfigError ==
    (ctor.done /\ ~Present(ctor.args.apiKey)) =>
        /\ ctor.err.cls = "ZilligonError"
        /\ ctor.err.code = Str("CONFIG_ERROR")
        /\ config = NoConfig

\* a credential: the API key, an access token or a refresh token
IsCredential(v) ==
    \/ v = ApiKey
    \/ \E n \in 1..MaxIssue : v \in {AccessOf(n), RefreshOf(n)}

\* C19: with debug logging on, no line written by any operation shows a
\* credential: the API key, an access token or a refresh token.
C19_NoCredentialLogged ==
    \A line \in logged : \A v \in line.shows : ~IsCredential(v)

\* C20: there is no automatic retry: one call of an authenticated resource
\* operation makes at most one transport call to its target endpoint, at
\* most one to the refresh endpoint and at most one to the authenticate
\* endpoint.
C20_NoRetry ==
    \A t \in DOMAIN task :
        LET f == task[t] IN
        (f.op = "request") =>
            /\ CallsTo(f, "target") <= 1
            /\ CallsTo(f, "refresh") <= 1
            /\ CallsTo(f, "token") <= 1
            /\ Len(f.calls) <= 3

C20_Witness ==
    \E t \in DOMAIN task :
        /\ task[t].op = "request"
        /\ task[t].pc = "done"
        /\ task[t].result.kind = "err"
        /\ task[t].result.err.code = Str("API_ERROR")
        /\ task[t].resp.status = 500
        /\ Len(task[t].calls) = 3
        /\ task[t].calls[1].ep = "refresh"
        /\ task[t].calls[2].ep = "token"
        /\ task[t].calls[3].ep = "target"
\* C21: forceRefresh makes exactly one credential exchange, whether the
\* current token is still valid or not: the refresh exchange when a refresh
\* token is present, else the authenticate exchange; when that exchange
\* fails, the failure reaches the caller with no fallback to the other
\* exchange and the credential state is left as it was.
C21_ForceRefreshOneExchange ==
    \A t \in DOMAIN task :
        LET f == task[t]
            ep == IF Present(f.snap.refreshToken) THEN "refresh" ELSE "token"
            other == IF ep = "refresh" THEN "token" ELSE "refresh"
        IN
        (f.op = "forceRefresh") =>
            /\ CallsTo(f, ep) = 1
            /\ CallsTo(f, other) = 0
            /\ CallsTo(f, "target") = 0
            /\ f.ensureCalls = 0
            /\ (f.pc = "done") =>
                   (/\ Len(f.calls) = 1
                    /\ f.result.kind = "ok" <=> f.calls[1].stored
                    /\ (f.result.kind = "err") =>
                           (f.result.from = ep /\ StoreUntouched(f)))

C21_Witness ==
    \E t \in DOMAIN task :
        /\ task[t].op = "forceRefresh"
        /\ task[t].pc = "done"
        /\ HeldValid(task[t].snap)
        /\ Present(task[t].snap.refreshToken)
        /\ task[t].calls[1].ep = "refresh"
        /\ task[t].result.kind = "err"
        /\ task[t].result.err.code = Str("INVALID_TOKEN")
        /\ accessToken = task[t].snap.accessToken

\* the codes ErrorCodes lists under "Authentication"
AuthenticationCodes ==
    {"INVALID_TOKEN", "INVALID_API_KEY", "TOKEN_EXPIRED", "TOKEN_REVOKED",
     "UNAUTHORIZED"}

\* C22: isAuthError is true exactly for the codes of the authentication
\* class (INVALID_TOKEN, INVALID_API_KEY, TOKEN_EXPIRED, TOKEN_REVOKED,
\* UNAUTHORIZED) and false for every other code of the taxonomy.
C22_AuthClassExact ==
    caught.asked =>
        (caught.isAuthError <=>
            \E c \in AuthenticationCodes : caught.error.code = Str(c))

\* C23: whenever the transport returns a response with HTTP status 500 or
\* above, the error the request raises is classified as server-retryable
\* (isServerError is true: it carries that status), whatever the response
\* body is, and the request is not attempted a second time.
C23_ServerErrorRetryable ==
    \A t \in DOMAIN task :
        LET f == task[t] IN
        (/\ f.pc = "done"
         /\ f.resp.body.kind # "none"
         /\ f.resp.status >= 500) =>
            /\ f.result.kind = "err"
            /\ f.result.err.cls = "ZilligonError"
            /\ isServerError(f.result.err)
            /\ f.result.err.statusCode = Num(f.resp.status)
            /\ CallsTo(f, f.calls[Len(f.calls)].ep) = 1
\* ------------------------------------------------------------------ C24
\* the handler has returned the error payload for the error it caught
ErrorPayload ==
    /\ tool.reply.isError
    /\ tool.reply.success = Bool(FALSE)
    /\ tool.reply.error = tool.failure.message
    /\ ~tool.raised

\* C24, as stated: the handler maps every recognized tool call with valid
\* arguments onto exactly one client operation and never raises; a schema
\* violation, an unknown tool name or a client error comes back as the error
\* payload.
C24_AsClaimed ==
    tool.pc = "done" =>
        /\ ~tool.raised
        /\ (tool.name \in Tools /\ tool.args.shape = "valid") =>
               Len(tool.ops) = 1
        /\ (\/ tool.name \notin Tools
            \/ tool.args.shape # "valid"
            \/ tool.failure.cls = "ZilligonError") => ErrorPayload

\* C24, amended: the handler never raises: whatever is thrown inside it comes
\* back as the error payload with the thrown message. A recognized tool call
\* with valid arguments is mapped onto exactly one client operation, but for
\* zilligon_follow: with a handle it looks the agent up and, if that
\* succeeds, follows it (two operations), and with neither a handle nor an
\* agentId it calls no operation and returns the error payload. Arguments
\* that violate the schema come back as the error payload for the five tools
\* whose arguments the handler parses; an unknown tool name and a client
\* error always do.
C24_NeverRaises ==
    tool.pc = "done" =>
        /\ ~tool.raised
        /\ tool.failure # NoError => ErrorPayload
        /\ (tool.name \in Tools \ {"zilligon_follow"}
            /\ tool.args.shape = "valid") => Len(tool.ops) = 1
        /\ (tool.name = "zilligon_follow" /\ tool.args.shape = "valid") =>
               CASE tool.args.handle ->
                      \/ tool.ops = <<"getAgentByHandle", "follow">>
                      \/ tool.ops = <<"getAgentByHandle">> /\ ErrorPayload
                 [] tool.args.agentId -> tool.ops = <<"follow">>
                 [] OTHER -> tool.ops = <<>> /\ ErrorPayload
        /\ (\/ tool.name \notin Tools
            \/ tool.name \in Parsed /\ tool.args.shape # "valid"
            \/ tool.failure.cls = "ZilligonError") => ErrorPayload

\* zilligon_follow with a handle has looked the agent up, followed it and
\* replied with success
C24_Witness ==
    /\ tool.pc = "done"
    /\ tool.name = "zilligon_follow"
    /\ tool.ops = <<"getAgentByHandle", "follow">>
    /\ tool.reply.success = Bool(TRUE)

\* ------------------------------------------------------------------ C25
\* the last status fetched shows a completed job with no result attached
LastCompletedBare ==
    /\ job.last.k = "obj"
    /\ job.last.status = Str("completed")
    /\ ~job.last.attached

\* C25, as stated: once a status fetch has returned completed or failed, with
\* or without a result attached to completed, generateMediaAndWait has
\* returned and fetches no further status.
C25_AsClaimed ==
    (LastCompleted \/ LastCompletedBare \/ LastFailed) =>
        /\ job.pc = "done"
        /\ job.result.kind = "ok"

\* C25, amended: once a status fetch has returned failed, or completed with a
\* result attached, generateMediaAndWait has returned and fetches no further
\* status; a completed status with no result attached does not end the loop:
\* it sleeps and fetches again, unless the ceiling has been reached, where it
\* returns the timed out result.
C25_StopsAtUsableTerminal ==
    /\ (LastCompleted \/ LastFailed) =>
           /\ job.pc = "done"
           /\ job.result.kind = "ok"
           /\ job.exit \in {"completed", "failed"}
    /\ LastCompletedBare =>
           \/ job.pc \in {"sleep", "status"}
           \/ /\ job.pc = "done"
              /\ job.exit = "timeout"
              /\ now - job.startTime >= maxWaitMs

\* a second status fetch is under way after a first one that showed a
\* completed job with no result
C25_Witness ==
    /\ LastCompletedBare
    /\ job.pc = "status"
    /\ job.polls = 2

\* ------------------------------------------------------------------ C29
\* every status fetch made so far came after a sleep of at least the poll
\* interval
FetchAfterSleep ==
    job.pc = "status" =>
        /\ job.polls >= 1
        /\ now - job.startTime >= job.polls * pollIntervalMs

\* C29, as stated: every status fetch of generateMediaAndWait is preceded by
\* a sleep of the poll interval, and no status fetch is started once 300000
\* ms have elapsed since the submission.
C29_AsClaimed ==
    /\ FetchAfterSleep
    /\ job.pc = "status" => now - job.startTime < maxWaitMs

\* C29, amended: every status fetch of generateMediaAndWait is preceded by a
\* sleep of the poll interval, and no sleep is begun once 300000 ms have
\* elapsed since the submission; the elapsed time is not looked at between
\* the sleep and the fetch, so a fetch can start at or past the ceiling.
C29_CeilingTestedBeforeSleep ==
    /\ FetchAfterSleep
    /\ job.pc = "sleep" => now - job.startTime < maxWaitMs

\* the 150th status fetch starts when exactly 300000 ms have elapsed
C29_Witness ==
    /\ job.pc = "status"
    /\ job.polls = maxWaitMs \div pollIntervalMs
    /\ now - job.startTime = maxWaitMs

\* ------------------------------------------------------------------ C30
\* C30: whenever ensureValidToken returns normally, what it returns is a
\* present, non-empty access token, the one stored; so every authenticated
\* request that reaches the transport carries a present bearer value,
\* whatever success-true response the credential endpoint gave.
C30_ReturnsPresentToken ==
    \A t \in DOMAIN task :
        LET f == task[t] IN
        /\ (f.op = "ensureValidToken" /\ f.pc = "done"
            /\ f.result.kind = "ok") =>
               (Present(f.result.value) /\ f.result.value = accessToken)
        /\ (f.pc \in {"fetch", "json"} /\ f.ep = "target") =>
               Present(f.header)
        /\ \A i \in 1..Len(f.calls) :
               f.calls[i].ep = "target" => Present(f.calls[i].header)

\* ------------------------------------------------------------------ C26
\* frame f has a credential exchange in flight
Exchanging(f) == f.pc \in {"fetch", "json"} /\ f.ep \in {"token", "refresh"}

\* the credential exchanges frame f has called, the pending one included
OwnExchanges(f) == CallsTo(f, "token") + CallsTo(f, "refresh")

\* the last exchange of frame f gave it a pair with an access token
GotPair(f) ==
    /\ Len(f.calls) >= 1
    /\ LET last == f.calls[Len(f.calls)] IN
       IF f.pc = "done" /\ f.op = "request" /\ Len(f.calls) >= 2
       THEN f.calls[Len(f.calls) - 1].stored
            /\ Present(f.calls[Len(f.calls) - 1].access)
       ELSE last.stored /\ Present(last.access)

\* C26: nothing serializes credential acquisition: an authenticated
\* operation that finds the token invalid calls its own refresh or
\* authenticate exchange, whatever another operation has in flight, so two
\* exchanges are in flight at once when two such operations overlap; and an
\* operation whose exchange gave it a pair goes on with a present token.
C26_EachTriggersOwnExchange ==
    \A t \in DOMAIN task :
        LET f == task[t] IN
        /\ (RunsEnsure(f) /\ ~HeldValid(f.snap)) => OwnExchanges(f) >= 1
        /\ (RunsEnsure(f) /\ GotPair(f)) =>
               IF f.op = "ensureValidToken"
               THEN /\ f.pc = "done"
                    /\ f.result.kind = "ok"
                    /\ Present(f.result.value)
               ELSE \/ f.pc \in {"fetch", "json"} /\ f.ep = "target"
                                                  /\ Present(f.header)
                    \/ f.pc = "done"
                       /\ Present(f.calls[Len(f.calls)].header)

\* two operations that both found no token when they began have each
\* completed their own authenticate exchange and returned a token: their
\* exchanges were in flight at the same time
C26_Witness ==
    /\ \A t \in DOMAIN task :
           /\ task[t].op = "ensureValidToken"
           /\ task[t].pc = "done"
           /\ task[t].snap.accessToken = Null
           /\ task[t].calls[1].ep = "token"
           /\ task[t].calls[1].stored
           /\ task[t].result.kind = "ok"
           /\ Present(task[t].result.value)
    /\ Cardinality(DOMAIN task) = 2

\* ------------------------------------------------------------------ C27
\* a triple whose tokens, when both present, are of the same pair
SamePair(cr) ==
    (Present(cr.accessToken) /\ Present(cr.refreshToken)) =>
        cr.accessToken.n = cr.refreshToken.n

\* C27: under every interleaving of overlapping operations the stored triple
\* is never torn: in every state, and in what every operation found when it
\* began, the three fields come from one exchange response.
C27_NeverTorn ==
    /\ SamePair(CurrentCreds)
    /\ lastExchange.set =>
           /\ accessToken = lastExchange.data.accessToken
           /\ refreshToken = lastExchange.data.refreshToken
           /\ tokenExpiresAt =
                  JsAddMs(lastExchange.at, lastExchange.data.expiresIn)
    /\ ~lastExchange.set =>
           (accessToken = Null /\ refreshToken = Null /\ tokenExpiresAt = Null)
    /\ \A t \in DOMAIN task : SamePair(task[t].snap)

\* an operation has an exchange in flight while the other has stored a pair
\* that is not the one the first found when it began
C27_Witness ==
    \E t \in DOMAIN task, u \in DOMAIN task :
        /\ t # u
        /\ Exchanging(task[t])
        /\ task[u].pc = "done"
        /\ GotPair(task[u])
        /\ Present(accessToken)
        /\ Present(refreshToken)
        /\ accessToken # task[t].snap.accessToken
        /\ accessToken.n = refreshToken.n

\* ------------------------------------------------------------------ C28
\* the store holds an older pair than one that a completed exchange stored
OlderThanStored ==
    \E t \in DOMAIN task :
        \E i \in 1..Len(task[t].calls) :
            /\ task[t].calls[i].stored
            /\ Present(task[t].calls[i].access)
            /\ Present(accessToken)
            /\ accessToken.n < task[t].calls[i].access.n

\* a refresh is in flight with a refresh token that is no longer the stored
\* one, or that the server has answered another refresh for with a new pair
\* (the refresh is the first call of its operation, so it presents the
\* refresh token the operation found when it began)
PresentsReplaced ==
    \E t \in DOMAIN task :
        /\ task[t].pc = "fetch"
        /\ task[t].ep = "refresh"
        /\ \/ task[t].snap.refreshToken # refreshToken
           \/ \E u \in DOMAIN task \ {t} :
                  /\ task[u].pc = "json"
                  /\ task[u].ep = "refresh"
                  /\ task[u].pair > 0
                  /\ task[u].snap.refreshToken = task[t].snap.refreshToken

\* C28, as stated: the stored credentials are those of the pair most recently
\* issued: a late response never overwrites a newer pair with an older one,
\* and an overlapping refresh never presents a refresh token that an earlier
\* exchange has replaced.
C28_AsClaimed ==
    /\ ~OlderThanStored
    /\ ~PresentsReplaced

\* C28, amended: the stored credentials are those of the exchange response
\* the client processed last, whichever pair the server issued last: a late
\* response does overwrite a newer pair with an older one. A refresh presents
\* the refresh token that was stored when its operation began, replaced
\* since or not. No pair is stored that the server has not issued.
C28_LastProcessedWins ==
    /\ lastExchange.set => accessToken = lastExchange.data.accessToken
    /\ Present(accessToken) => accessToken.n <= issued
    /\ \A t \in DOMAIN task :
           LET f == task[t] IN
           /\ (f.pc \in {"fetch", "json"} /\ f.ep = "refresh") =>
                  Present(f.snap.refreshToken)
           /\ (f.pc = "done" /\ GotPair(f) /\ f.op = "ensureValidToken") =>
                  f.result.value.n <= issued

\* both exchanges are complete and the store holds the pair issued first,
\* which the late response wrote over the pair issued second
C28_Witness ==
    /\ OlderThanStored
    /\ \A t \in DOMAIN task : task[t].pc = "done"
    /\ issued = 2
    /\ accessToken = AccessOf(1)
    /\ refreshToken = RefreshOf(1)

====
